---- MODULE Spec2Model ----
(***************************************************************************)
(* A model of reddit_scraper.py: RedditScraper.get_top_posts,              *)
(* scrape_multiple_subreddits, save_to_excel, save_to_csv and main.        *)
(*                                                                         *)
(* The praw client, the file system and the clock are collaborators.  The  *)
(* praw client may raise at every call the code makes on it; the file      *)
(* system is a tree of directories and files; the clock counts seconds.    *)
(* Python strings that the code slices or tests (paths, file names) are    *)
(* records [str |-> <<characters>>]; Python's None is the record None.     *)
(***************************************************************************)
EXTENDS Integers, Sequences, FiniteSets, TLC

(* ------------------------------ bounds --------------------------------- *)

\* longest --subreddits list
MaxForums == 2
\* largest --limit
MaxLimit == 2
\* most records in a collection handed directly to an exporter
MaxRows == 2

(* ------------------------- Python values ------------------------------- *)

None == [py |-> "None"]

S(chars) == [str |-> chars]

\* truth value of an optional string: None and "" are false
Truthy(v) == v # None /\ v.str # <<>>

\* str.endswith
EndsWith(s, suffix) ==
    /\ Len(s) >= Len(suffix)
    /\ SubSeq(s, Len(s) - Len(suffix) + 1, Len(s)) = suffix

DotXlsx == <<".", "x", "l", "s", "x">>
DotCsv == <<".", "c", "s", "v">>
NamePrefix == <<"r", "e", "d", "d", "i", "t", "_", "t", "o", "p", "_",
                "p", "o", "s", "t", "s", "_">>

(* ------------------------------ clock ---------------------------------- *)

DigitChars == <<"0", "1", "2", "3", "4", "5", "6", "7", "8", "9">>

\* the decimal digits of n, zero-padded to at least width characters
RECURSIVE Pad(_, _)
Pad(n, width) ==
    IF width <= 1 /\ n < 10
    THEN <<DigitChars[n + 1]>>
    ELSE Pad(n \div 10, width - 1) \o <<DigitChars[(n % 10) + 1]>>

\* datetime.fromtimestamp / datetime.now for an epoch in January 1970
FromTimestamp(epoch) ==
    [year |-> 1970, month |-> 1, day |-> 1 + (epoch \div 86400),
     hour |-> (epoch \div 3600) % 24, minute |-> (epoch \div 60) % 60,
     second |-> epoch % 60]

\* strftime("%Y%m%d_%H%M%S")
Strftime(dt) ==
    Pad(dt.year, 4) \o Pad(dt.month, 2) \o Pad(dt.day, 2) \o <<"_">>
        \o Pad(dt.hour, 2) \o Pad(dt.minute, 2) \o Pad(dt.second, 2)

\* time.sleep(2)
SleepSeconds == 2

(* --------------------------- praw collaborator -------------------------- *)

Redditor(name) == [name |-> name]

\* the posts the platform holds, as praw exposes them (Submission attributes)
RawText ==
    [id |-> "t1", title |-> "Ask", score |-> 90, num_comments |-> 7,
     created_utc |-> 61, url |-> "/r/python/t1", permalink |-> "/r/python/t1",
     is_self |-> TRUE, selftext |-> "body", author |-> Redditor("alice")]

\* a link post that still carries text, by a removed account
RawLinkStray ==
    [id |-> "t2", title |-> "Link", score |-> 50, num_comments |-> 0,
     created_utc |-> 3600, url |-> "http://x", permalink |-> "/r/python/t2",
     is_self |-> FALSE, selftext |-> "stray", author |-> None]

RawLink ==
    [id |-> "t3", title |-> "Pic", score |-> 50, num_comments |-> 2,
     created_utc |-> 86399, url |-> "http://y", permalink |-> "/r/python/t3",
     is_self |-> FALSE, selftext |-> "", author |-> Redditor("bob")]

\* a text post by a removed account
RawTextDeleted ==
    [id |-> "t4", title |-> "Gone", score |-> 3, num_comments |-> 1,
     created_utc |-> 0, url |-> "/r/golang/t4", permalink |-> "/r/golang/t4",
     is_self |-> TRUE, selftext |-> "", author |-> None]

RawPosts == {RawText, RawLinkStray, RawLink, RawTextDeleted}

ForumNames == {"python", "golang", "void"}

\* two of the values --time-filter accepts
TimeFilters == {"week", "all"}

\* the platform's ranking of a forum's posts in a time window
Ranking(subreddit_name, time_filter) ==
    CASE subreddit_name = "python" /\ time_filter = "week" ->
              <<RawText, RawLinkStray, RawLink>>
      [] subreddit_name = "python" /\ time_filter = "all" ->
              <<RawLinkStray, RawLink, RawText>>
      [] subreddit_name = "golang" -> <<RawTextDeleted>>
      [] OTHER -> <<>>

\* the first n elements of a sequence
Take(seq, n) == SubSeq(seq, 1, IF n < Len(seq) THEN n ELSE Len(seq))

\* subreddit.top(time_filter=..., limit=...): what the listing yields when
\* the platform answers every request
Top(subreddit_name, time_filter, limit) ==
    Take(Ranking(subreddit_name, time_filter), limit)

(* -------------------------- Post Record Builder ------------------------- *)

AttributeError == "<AttributeError>"

\* attribute access obj.name: an AttributeError on None
GetAttrName(obj) == IF obj = None THEN AttributeError ELSE obj.name

\* the builder without the self-post test of line 55
PostData_CopySelftext(subreddit_name, post) ==
    [raised |-> FALSE,
     post_data |->
        [subreddit |-> subreddit_name,
         post_id |-> post.id,
         title |-> post.title,
         score |-> post.score,
         num_comments |-> post.num_comments,
         created_utc |-> FromTimestamp(post.created_utc),
         url |-> post.url,
         permalink |-> "https://www.reddit.com" \o post.permalink,
         is_self_post |-> post.is_self,
         selftext |-> post.selftext,
         author |-> IF post.author # None
                    THEN GetAttrName(post.author)
                    ELSE "[deleted]"]]

\* the builder without the author test of line 61
PostData_NoAuthorGuard(subreddit_name, post) ==
    [raised |-> GetAttrName(post.author) = AttributeError,
     post_data |->
        [subreddit |-> subreddit_name,
         post_id |-> post.id,
         title |-> post.title,
         score |-> post.score,
         num_comments |-> post.num_comments,
         created_utc |-> FromTimestamp(post.created_utc),
         url |-> post.url,
         permalink |-> "https://www.reddit.com" \o post.permalink,
         is_self_post |-> post.is_self,
         selftext |-> IF post.is_self THEN post.selftext ELSE "",
         author |-> GetAttrName(post.author)]]

\* lines 42-64: the dictionary built from one post, and whether building it
\* raised
PostData(subreddit_name, post) ==
    LET selftext == IF post.is_self THEN post.selftext ELSE ""
        author == IF post.author # None
                  THEN GetAttrName(post.author)
                  ELSE "[deleted]"
    IN  [raised |-> author = AttributeError,
         post_data |->
            [subreddit |-> subreddit_name,
             post_id |-> post.id,
             title |-> post.title,
             score |-> post.score,
             num_comments |-> post.num_comments,
             created_utc |-> FromTimestamp(post.created_utc),
             url |-> post.url,
             permalink |-> "https://www.reddit.com" \o post.permalink,
             is_self_post |-> post.is_self,
             selftext |-> selftext,
             author |-> author]]

\* the keys of post_data in insertion order
Columns ==
    <<"subreddit", "post_id", "title", "score", "num_comments",
      "created_utc", "url", "permalink", "is_self_post", "selftext",
      "author">>

(* ------------------------------ DataFrame ------------------------------- *)

\* pd.DataFrame(list of dicts): one row per dict, columns in key order
DataFrame(all_posts) ==
    [columns |-> Columns,
     rows |-> [r \in 1..Len(all_posts) |->
                  [c \in 1..Len(Columns) |-> all_posts[r][Columns[c]]]]]

\* pd.DataFrame()
EmptyFrame == [columns |-> <<>>, rows |-> <<>>]

\* an emptiness test that looks at the columns only
DfEmpty_ColumnsOnly(df) == Len(df.columns) = 0

\* df.empty: some axis has length 0
DfEmpty(df) == Len(df.columns) = 0 \/ Len(df.rows) = 0

\* lines 97-103
ToFrame(all_posts) ==
    IF all_posts # <<>> THEN DataFrame(all_posts) ELSE EmptyFrame

\* a write with header=False
Sheet_NoHeader(df) == df.rows

\* what to_csv / to_excel write with index=False: the header, then the rows
Sheet(df) == <<df.columns>> \o df.rows

\* an extend that skips the records already collected
Extend_Dedup(all_posts, posts) ==
    all_posts \o SelectSeq(posts,
        LAMBDA p : \A k \in 1..Len(all_posts) : all_posts[k] # p)

\* line 92: all_posts.extend(posts)
Extend(all_posts, posts) == all_posts \o posts

(* ------------------------------ file system ----------------------------- *)

\* the file system is a function from paths (relative to the working
\* directory, as character sequences) to what is stored there
DirEntry == [kind |-> "dir"]

FileEntry(format, sheet) == [kind |-> "file", format |-> format, sheet |-> sheet]

\* the file system main starts in: a directory "e" and a regular file "f"
InitialFs ==
    [p \in {<<"e">>, <<"f">>} |->
        IF p = <<"e">> THEN DirEntry ELSE FileEntry("text", <<>>)]

\* os.path.exists
Exists(fs, path) == path \in DOMAIN fs

\* os.path.isdir; the empty path stands for the working directory
IsDir(fs, path) ==
    path = <<>> \/ (path \in DOMAIN fs /\ fs[path].kind = "dir")

\* str.rfind, 1-based, 0 when absent
RFind(s, ch) ==
    LET hits == {k \in 1..Len(s) : s[k] = ch}
    IN  IF hits = {} THEN 0 ELSE CHOOSE k \in hits : \A j \in hits : j <= k

\* str.rstrip
RECURSIVE RStrip(_, _)
RStrip(s, ch) ==
    IF s # <<>> /\ s[Len(s)] = ch
    THEN RStrip(SubSeq(s, 1, Len(s) - 1), ch)
    ELSE s

\* os.path.dirname (posixpath)
Dirname(path) ==
    LET head == SubSeq(path, 1, RFind(path, "/"))
    IN  IF head # <<>> /\ \E k \in 1..Len(head) : head[k] # "/"
        THEN RStrip(head, "/")
        ELSE head

\* os.path.basename (posixpath)
Basename(path) == SubSeq(path, RFind(path, "/") + 1, Len(path))

NoFault(fs) == [raised |-> FALSE, fs |-> fs]

Fault(fs) == [raised |-> TRUE, fs |-> fs]

\* os.mkdir
Mkdir(fs, name) ==
    IF Exists(fs, name) \/ name = <<>> \/ ~IsDir(fs, Dirname(name))
    THEN Fault(fs)
    ELSE NoFault([p \in DOMAIN fs \cup {name} |->
                     IF p = name THEN DirEntry ELSE fs[p]])

\* os.makedirs: creates the missing ancestors, then the directory
RECURSIVE Makedirs(_, _)
Makedirs(fs, name) ==
    LET head == Dirname(name)
        tail == Basename(name)
        up == IF head # <<>> /\ tail # <<>> /\ ~Exists(fs, head)
              THEN Makedirs(fs, head)
              ELSE NoFault(fs)
    IN  IF up.raised THEN up ELSE Mkdir(up.fs, name)

\* open(path, "w") and write: the parent must be a directory, the path not
WriteFile(fs, path, format, sheet) ==
    IF path = <<>> \/ ~IsDir(fs, Dirname(path)) \/ IsDir(fs, path)
    THEN Fault(fs)
    ELSE NoFault([p \in DOMAIN fs \cup {path} |->
                     IF p = path THEN FileEntry(format, sheet) ELSE fs[p]])

\* line 131: df.to_excel(output_file, index=False); pandas picks the writer
\* from the extension and raises when it knows none for it
ToExcel(fs, path, df) ==
    IF ~EndsWith(path, DotXlsx)
    THEN Fault(fs)
    ELSE WriteFile(fs, path, "xlsx", Sheet(df))

\* line 161: df.to_csv(output_file, index=False)
ToCsv(fs, path, df) == WriteFile(fs, path, "csv", Sheet(df))

(* ------------------------------- Exporter ------------------------------- *)

\* lines 126-128
EnsureDir(fs, output_file) ==
    LET output_dir == Dirname(output_file)
    IN  IF output_dir # <<>> /\ ~Exists(fs, output_dir)
        THEN Makedirs(fs, output_dir)
        ELSE NoFault(fs)

\* lines 121-123
ExcelName(output_file, now) ==
    IF output_file = None
    THEN S(NamePrefix \o Strftime(now) \o DotXlsx)
    ELSE output_file

\* lines 151-153
CsvName(output_file, now) ==
    IF output_file = None
    THEN S(NamePrefix \o Strftime(now) \o DotCsv)
    ELSE output_file

\* the outcome of an exporter: the value returned, the file system left
\* behind, and whether an error left the method instead
Outcome(written, path) ==
    [raised |-> written.raised,
     ret |-> IF written.raised THEN None ELSE path,
     fs |-> written.fs]

\* lines 105-133: RedditScraper.save_to_excel
SaveToExcel(df, output_file, fs, now) ==
    IF DfEmpty(df)
    THEN [raised |-> FALSE, ret |-> None, fs |-> fs]
    ELSE LET path == ExcelName(output_file, now)
             made == EnsureDir(fs, path.str)
         IN  IF made.raised
             THEN Outcome(made, path)
             ELSE Outcome(ToExcel(made.fs, path.str, df), path)

\* lines 135-163: RedditScraper.save_to_csv
SaveToCsv(df, output_file, fs, now) ==
    IF DfEmpty(df)
    THEN [raised |-> FALSE, ret |-> None, fs |-> fs]
    ELSE LET path == CsvName(output_file, now)
             made == EnsureDir(fs, path.str)
         IN  IF made.raised
             THEN Outcome(made, path)
             ELSE Outcome(ToCsv(made.fs, path.str, df), path)

\* a fallback that keeps the name as given
SelectExporter_KeepName(output) ==
    IF Truthy(output)
    THEN IF EndsWith(output.str, DotXlsx)
         THEN [fn |-> "save_to_excel", output_file |-> output]
         ELSE [fn |-> "save_to_csv", output_file |-> output]
    ELSE [fn |-> "save_to_excel", output_file |-> None]

\* lines 204-214: the exporter main invokes and the destination it passes
SelectExporter(output) ==
    IF Truthy(output)
    THEN IF EndsWith(output.str, DotXlsx)
         THEN [fn |-> "save_to_excel", output_file |-> output]
         ELSE IF EndsWith(output.str, DotCsv)
              THEN [fn |-> "save_to_csv", output_file |-> output]
              ELSE [fn |-> "save_to_csv",
                    output_file |-> S(output.str \o DotCsv)]
    ELSE [fn |-> "save_to_excel", output_file |-> None]

\* one call of an exporter method
Invoke(fn, df, output_file, fs, now) ==
    IF fn = "save_to_excel"
    THEN SaveToExcel(df, output_file, fs, now)
    ELSE SaveToCsv(df, output_file, fs, now)

(* -------------------------------- state --------------------------------- *)

VARIABLES
    pc,         \* where the run stands
    args,       \* the parsed command line
    idx,        \* position of the for loop of line 89 in subreddit_list
    posts,      \* get_top_posts: the list under construction
    result,     \* the value the last get_top_posts returned
    all_posts,  \* scrape_multiple_subreddits: the running collection
    df,         \* the DataFrame handed to the exporter
    fs,         \* the file system
    clock,      \* the wall clock, in seconds
    uncaught,   \* the error that left main, "none" when none did
    ret,        \* the value the exporter returned
    fetch_log,  \* one entry per call of get_top_posts
    builds,     \* one entry per post the listing yielded
    sleeps,     \* the pauses taken, in order
    calls       \* the exporter invocations, in order

vars ==
    <<pc, args, idx, posts, result, all_posts, df, fs, clock, uncaught, ret,
      fetch_log, builds, sleeps, calls>>

\* the exit status of the interpreter: 1 after an uncaught exception
ExitCode == IF uncaught = "none" THEN 0 ELSE 1

\* all sequences over a set of length lo..hi
SeqsOf(set, lo, hi) == UNION {[1..k -> set] : k \in lo..hi}

\* the --output values tried
OutputValues ==
    {None, S(<<>>), S(<<"o", ".", "c", "s", "v">>), S(<<"o", ".", "x", "l", "s", "x">>), S(<<"o", ".", "t", "x", "t">>), S(<<"d", "/", "o", ".", "c", "s", "v">>),
     S(<<"e", "/", "o", ".", "x", "l", "s", "x">>), S(<<"f", "/", "o", ".", "c", "s", "v">>)}

\* the clock readings a run may start at
StartTimes == {58, 431998}

ArgSpace ==
    [subreddits : SeqsOf(ForumNames, 1, MaxForums),
     limit : 1..MaxLimit,
     time_filter : TimeFilters,
     output : OutputValues]

Init ==
    /\ pc = "loop"
    /\ args \in ArgSpace
    /\ idx = 1
    /\ posts = <<>>
    /\ result = <<>>
    /\ all_posts = <<>>
    /\ df = EmptyFrame
    /\ fs = InitialFs
    /\ clock \in StartTimes
    /\ uncaught = "none"
    /\ ret = None
    /\ fetch_log = <<>>
    /\ builds = <<>>
    /\ sleeps = <<>>
    /\ calls = <<>>

(* ------------------------ RedditScraper.get_top_posts ------------------- *)

subreddit == args.subreddits[idx]

Listing == Top(subreddit, args.time_filter, args.limit)

LogEntry(name, raised, built, returned, value) ==
    [name |-> name, raised |-> raised, built |-> built,
     returned |-> returned, result |-> value]

\* a handler that returns the records built before the error
ExceptReturn_Partial(built) == built

\* lines 71-73: what the handler returns, given the list built so far
ExceptReturn(built) == <<>>

\* the last entry of the log replaced
SetLast(log, entry) == [log EXCEPT ![Len(log)] = entry]

\* lines 89-91, 36-37: the loop takes the next forum, get_top_posts obtains
\* the forum handle and starts with an empty list
CallGetTopPosts ==
    /\ pc = "loop"
    /\ idx <= Len(args.subreddits)
    /\ pc' = "listing"
    /\ posts' = <<>>
    /\ fetch_log' = Append(fetch_log, LogEntry(subreddit, "none", 0, FALSE, <<>>))
    /\ UNCHANGED <<args, idx, result, all_posts, df, fs, clock, uncaught,
                   ret, builds, sleeps, calls>>

\* line 36: reddit.subreddit raises; no handler encloses the call, so the
\* error leaves get_top_posts, scrape_multiple_subreddits and main
SubredditRaises ==
    /\ pc = "loop"
    /\ idx <= Len(args.subreddits)
    /\ pc' = "exited"
    /\ uncaught' = "subreddit"
    /\ fetch_log' = Append(fetch_log, LogEntry(subreddit, "subreddit", 0, FALSE, <<>>))
    /\ UNCHANGED <<args, idx, posts, result, all_posts, df, fs, clock, ret,
                   builds, sleeps, calls>>

\* lines 40-66: the listing yields its next post and a record is built from
\* it; an error while building is handled by lines 71-73
NextPost ==
    /\ pc = "listing"
    /\ Len(posts) < Len(Listing)
    /\ LET post == Listing[Len(posts) + 1]
           built == PostData(subreddit, post)
       IN  /\ builds' = Append(builds, [post |-> post, built |-> built])
           /\ IF built.raised
              THEN /\ result' = ExceptReturn(posts)
                   /\ pc' = "returned"
                   /\ fetch_log' = SetLast(fetch_log,
                          LogEntry(subreddit, "build", Len(posts), TRUE,
                                   ExceptReturn(posts)))
                   /\ UNCHANGED posts
              ELSE /\ posts' = Append(posts, built.post_data)
                   /\ UNCHANGED <<pc, result, fetch_log>>
    /\ UNCHANGED <<args, idx, all_posts, df, fs, clock, uncaught, ret,
                   sleeps, calls>>

\* lines 68-69: the listing is exhausted and the list is returned
ListingEnds ==
    /\ pc = "listing"
    /\ Len(posts) = Len(Listing)
    /\ result' = posts
    /\ pc' = "returned"
    /\ fetch_log' = SetLast(fetch_log,
           LogEntry(subreddit, "none", Len(posts), TRUE, posts))
    /\ UNCHANGED <<args, idx, posts, all_posts, df, fs, clock, uncaught,
                   ret, builds, sleeps, calls>>

\* lines 40, 71-73: the listing raises, before its first post or after any
\* number of them; the handler returns
ListingRaises ==
    /\ pc = "listing"
    /\ result' = ExceptReturn(posts)
    /\ pc' = "returned"
    /\ fetch_log' = SetLast(fetch_log,
           LogEntry(subreddit, "top", Len(posts), TRUE, ExceptReturn(posts)))
    /\ UNCHANGED <<args, idx, posts, all_posts, df, fs, clock, uncaught,
                   ret, builds, sleeps, calls>>

(* ----------------- RedditScraper.scrape_multiple_subreddits ------------- *)

\* a loop that pauses between forums only, not after the last one
ExtendAndSleep_Between ==
    /\ pc = "returned"
    /\ all_posts' = Extend(all_posts, result)
    /\ sleeps' = IF idx < Len(args.subreddits)
                 THEN Append(sleeps, SleepSeconds)
                 ELSE sleeps
    /\ clock' = IF idx < Len(args.subreddits)
                THEN clock + SleepSeconds
                ELSE clock
    /\ idx' = idx + 1
    /\ pc' = "loop"
    /\ UNCHANGED <<args, posts, result, df, fs, uncaught, ret, fetch_log,
                   builds, calls>>

\* lines 92-95: the returned list is appended, then the pause
ExtendAndSleep ==
    /\ pc = "returned"
    /\ all_posts' = Extend(all_posts, result)
    /\ sleeps' = Append(sleeps, SleepSeconds)
    /\ clock' = clock + SleepSeconds
    /\ idx' = idx + 1
    /\ pc' = "loop"
    /\ UNCHANGED <<args, posts, result, df, fs, uncaught, ret, fetch_log,
                   builds, calls>>

\* lines 97-103: the loop is over and the DataFrame is returned to main
ReturnFrame ==
    /\ pc = "loop"
    /\ idx > Len(args.subreddits)
    /\ df' = ToFrame(all_posts)
    /\ pc' = "save"
    /\ UNCHANGED <<args, idx, posts, result, all_posts, fs, clock, uncaught,
                   ret, fetch_log, builds, sleeps, calls>>

(* --------------------------------- main --------------------------------- *)

CallEntry(fn, frame, output_file) ==
    [fn |-> fn, df |-> frame, output_file |-> output_file]

\* lines 203-214: the exporter is chosen and run; main returns, or the
\* exporter's error leaves main
SaveResults ==
    /\ pc = "save"
    /\ LET sel == SelectExporter(args.output)
           out == Invoke(sel.fn, df, sel.output_file, fs, FromTimestamp(clock))
       IN  /\ calls' = Append(calls, CallEntry(sel.fn, df, sel.output_file))
           /\ fs' = out.fs
           /\ ret' = out.ret
           /\ uncaught' = IF out.raised THEN "export" ELSE "none"
    /\ pc' = "exited"
    /\ UNCHANGED <<args, idx, posts, result, all_posts, df, clock,
                   fetch_log, builds, sleeps>>

Next ==
    \/ CallGetTopPosts
    \/ SubredditRaises
    \/ NextPost
    \/ ListingEnds
    \/ ListingRaises
    \/ ExtendAndSleep
    \/ ReturnFrame
    \/ SaveResults

Spec == Init /\ [][Next]_vars

(* --------------- the exporters called directly on a collection ---------- *)

\* the records the builder makes of the platform's posts
BuiltRecords == {PostData("python", p).post_data : p \in RawPosts}

\* the frames handed to an exporter: of every short collection, and one
\* with columns but no rows
ApiFrames ==
    {ToFrame(c) : c \in SeqsOf(BuiltRecords, 0, MaxRows)}
        \cup {[columns |-> Columns, rows |-> <<>>]}

\* the destinations handed to an exporter
ApiPaths == OutputValues \cup {S(<<"d", "/", "s", "/", "o", ".", "c", "s", "v">>), S(<<"f", "/", "g", "/", "o", ".", "x", "l", "s", "x">>)}

InitExport ==
    /\ pc = "api"
    /\ args = [subreddits |-> <<>>, limit |-> 1, time_filter |-> "week",
               output |-> None]
    /\ idx = 1
    /\ posts = <<>>
    /\ result = <<>>
    /\ all_posts = <<>>
    /\ df \in ApiFrames
    /\ fs = InitialFs
    /\ clock \in StartTimes
    /\ uncaught = "none"
    /\ ret = None
    /\ fetch_log = <<>>
    /\ builds = <<>>
    /\ sleeps = <<>>
    /\ calls = <<>>

\* scraper.save_to_excel(df, output_file) / scraper.save_to_csv(df, output_file)
ApiCall(fn) ==
    /\ pc = "api"
    /\ \E output_file \in ApiPaths :
          LET out == Invoke(fn, df, output_file, fs, FromTimestamp(clock))
          IN  /\ calls' = Append(calls, CallEntry(fn, df, output_file))
              /\ fs' = out.fs
              /\ ret' = out.ret
              /\ uncaught' = IF out.raised THEN "export" ELSE "none"
    /\ pc' = "api_done"
    /\ UNCHANGED <<args, idx, posts, result, all_posts, df, clock,
                   fetch_log, builds, sleeps>>

ApiSaveToExcel == ApiCall("save_to_excel")

ApiSaveToCsv == ApiCall("save_to_csv")

NextExport ==
    \/ ApiSaveToExcel
    \/ ApiSaveToCsv

SpecExport == InitExport /\ [][NextExport]_vars

(* ================================ claims ================================ *)

\* the fetches whose returned list line 92 has appended: all of them, but
\* for the one still running, just returned, or ended by an error
Appended ==
    IF pc \in {"listing", "returned"} \/ uncaught = "subreddit"
    THEN SubSeq(fetch_log, 1, Len(fetch_log) - 1)
    ELSE fetch_log

\* the lists of a log, concatenated in order
RECURSIVE Concat(_)
Concat(log) ==
    IF log = <<>> THEN <<>>
    ELSE Concat(SubSeq(log, 1, Len(log) - 1)) \o log[Len(log)].result

\* scrape_multiple_subreddits has returned its DataFrame to main
ScrapeReturned == pc = "save" \/ (pc = "exited" /\ calls # <<>>)

\* C1: the collection scrape_multiple_subreddits builds is the concatenation,
\* in input-list order, of the lists get_top_posts returned: the fetches are
\* made in list order, all_posts is at every moment the concatenation of the
\* lists returned so far, and the DataFrame returned has one row per record of
\* that concatenation, in its order, nothing dropped or deduplicated.
C1_AggregateIsConcatenation ==
    /\ Len(fetch_log) <= Len(args.subreddits)
    /\ \A i \in 1..Len(fetch_log) : fetch_log[i].name = args.subreddits[i]
    /\ all_posts = Concat(Appended)
    /\ ScrapeReturned =>
          /\ Len(fetch_log) = Len(args.subreddits)
          /\ Len(df.rows) = Len(Concat(fetch_log))
          /\ \A r \in 1..Len(df.rows) : \A c \in 1..Len(df.columns) :
                df.rows[r][c] = Concat(fetch_log)[r][df.columns[c]]
          /\ df.rows # <<>> => df.columns = Columns

\* a forum listed twice has contributed its records twice
C1_Witness ==
    /\ pc = "save"
    /\ Len(fetch_log) = 2
    /\ fetch_log[1].name = fetch_log[2].name
    /\ fetch_log[1].result # <<>>
    /\ fetch_log[2].result = fetch_log[1].result
    /\ Len(df.rows) = 2 * Len(fetch_log[1].result)

\* C2: every error the collaborator raises while get_top_posts handles a
\* forum, the one raised when the forum handle is obtained included, is caught
\* in get_top_posts, which returns the empty list; no such error is the one
\* that ends the run, and a run that has ended has fetched every forum.
C2_FetchErrorsContained ==
    /\ \A i \in 1..Len(fetch_log) :
          fetch_log[i].raised # "none" =>
              fetch_log[i].returned /\ fetch_log[i].result = <<>>
    /\ uncaught # "subreddit"
    /\ pc = "exited" => Len(fetch_log) = Len(args.subreddits)

\* C3: a run of main that has ended has ended normally, with exit code 0,
\* whatever the fetches did and whatever --output was.
C3_MainExitsNormally == pc = "exited" => ExitCode = 0

\* C4: an exporter called on a collection without records, with or without a
\* destination, returns None and leaves the file system as it was.
C4_EmptyExportWritesNothing ==
    (pc = "api_done" /\ Len(calls[1].df.rows) = 0) =>
        /\ ret = None
        /\ fs = InitialFs
        /\ uncaught = "none"

\* save_to_csv was handed no record and a destination in a missing directory
C4_Witness ==
    /\ pc = "api_done"
    /\ calls[1].fn = "save_to_csv"
    /\ calls[1].df.rows = <<>>
    /\ calls[1].df.columns # <<>>
    /\ calls[1].output_file = S(<<"d", "/", "s", "/", "o", ".", "c", "s", "v">>)
    /\ ret = None

IsDigit(ch) == \E d \in 1..Len(DigitChars) : DigitChars[d] = ch

\* YYYYMMDD_HHMMSS
IsStamp(chars) ==
    /\ Len(chars) = 15
    /\ \A k \in (1..8) \cup (10..15) : IsDigit(chars[k])
    /\ chars[9] = "_"

\* C5: an exporter called on N >= 1 records without a destination creates
\* exactly one file, named reddit_top_posts_<YYYYMMDD_HHMMSS> of the current
\* time with the extension of its kind, holding the header row and then the N
\* records in order, and returns the file's path.
C5_DefaultExportWritesOneFile ==
    (pc = "api_done" /\ Len(calls[1].df.rows) >= 1
        /\ calls[1].output_file = None) =>
        LET ext == IF calls[1].fn = "save_to_excel" THEN DotXlsx ELSE DotCsv
            n == Len(calls[1].df.rows)
        IN  /\ uncaught = "none"
            /\ ret # None
            /\ Len(ret.str) = Len(NamePrefix) + 15 + Len(ext)
            /\ SubSeq(ret.str, 1, Len(NamePrefix)) = NamePrefix
            /\ IsStamp(SubSeq(ret.str, Len(NamePrefix) + 1, Len(NamePrefix) + 15))
            /\ SubSeq(ret.str, Len(NamePrefix) + 1, Len(NamePrefix) + 15)
                  = Strftime(FromTimestamp(clock))
            /\ SubSeq(ret.str, Len(NamePrefix) + 16, Len(ret.str)) = ext
            /\ ret.str \notin DOMAIN InitialFs
            /\ DOMAIN fs = DOMAIN InitialFs \cup {ret.str}
            /\ \A p \in DOMAIN InitialFs : fs[p] = InitialFs[p]
            /\ fs[ret.str].kind = "file"
            /\ fs[ret.str].format =
                  (IF calls[1].fn = "save_to_excel" THEN "xlsx" ELSE "csv")
            /\ Len(fs[ret.str].sheet) = n + 1
            /\ fs[ret.str].sheet[1] = Columns
            /\ \A r \in 1..n : fs[ret.str].sheet[r + 1] = calls[1].df.rows[r]

\* save_to_csv wrote two records under a name made of the clock
C5_Witness ==
    /\ pc = "api_done"
    /\ calls[1].fn = "save_to_csv"
    /\ calls[1].output_file = None
    /\ Len(calls[1].df.rows) = 2
    /\ ret # None
    /\ ret.str \in DOMAIN fs
    /\ Len(fs[ret.str].sheet) = 3

\* C6: main invokes at most one exporter, and a run that reaches the save
\* step invokes exactly one, once, chosen by --output alone: .xlsx gives
\* save_to_excel with that path, .csv gives save_to_csv with that path, any
\* other non-empty path P gives save_to_csv with P + ".csv", and no --output
\* gives save_to_excel with no path, which then writes under the timestamped
\* default name.
C6_ExporterSelectedByOutput ==
    /\ Len(calls) <= 1
    /\ pc # "exited" => calls = <<>>
    /\ (pc = "exited" /\ uncaught # "subreddit") =>
          /\ Len(calls) = 1
          /\ calls[1].df = df
          /\ LET o == args.output
                 c == calls[1]
             IN  /\ (o # None /\ EndsWith(o.str, DotXlsx)) =>
                        c.fn = "save_to_excel" /\ c.output_file = o
                 /\ (o # None /\ EndsWith(o.str, DotCsv)) =>
                        c.fn = "save_to_csv" /\ c.output_file = o
                 /\ (o # None /\ o.str # <<>> /\ ~EndsWith(o.str, DotXlsx)
                        /\ ~EndsWith(o.str, DotCsv)) =>
                        /\ c.fn = "save_to_csv"
                        /\ c.output_file = S(o.str \o DotCsv)
                 /\ o = S(<<"o", ".", "t", "x", "t">>) => c.output_file = S(<<"o", ".", "t", "x", "t", ".", "c", "s", "v">>)
                 /\ o = None =>
                        /\ c.fn = "save_to_excel"
                        /\ c.output_file = None
                        /\ df.rows # <<>> =>
                              /\ ret # None
                              /\ ret.str = NamePrefix
                                    \o Strftime(FromTimestamp(clock)) \o DotXlsx
                              /\ ret.str \in DOMAIN fs

\* --output o.txt was given and the records went to o.txt.csv
C6_Witness ==
    /\ pc = "exited"
    /\ args.output = S(<<"o", ".", "t", "x", "t">>)
    /\ Len(calls) = 1
    /\ calls[1].fn = "save_to_csv"
    /\ ret = S(<<"o", ".", "t", "x", "t", ".", "c", "s", "v">>)
    /\ <<"o", ".", "t", "x", "t", ".", "c", "s", "v">> \in DOMAIN fs
    /\ fs[<<"o", ".", "t", "x", "t", ".", "c", "s", "v">>].format = "csv"

\* C7: a record built from a post that is not a text post has selftext "",
\* whatever the post's selftext holds; a record built from a text post has
\* the post's selftext.
C7_SelftextOnlyForSelfPosts ==
    \A k \in 1..Len(builds) :
        LET b == builds[k]
        IN  /\ ~b.post.is_self => b.built.post_data.selftext = ""
            /\ b.post.is_self => b.built.post_data.selftext = b.post.selftext

\* a link post carrying text was built into a record that was collected
C7_Witness ==
    /\ \E k \in 1..Len(builds) :
          ~builds[k].post.is_self /\ builds[k].post.selftext # ""
    /\ \E r \in 1..Len(all_posts) :
          ~all_posts[r].is_self_post /\ all_posts[r].selftext = ""

\* C8: a record built from a post without author has author "[deleted]" and
\* building it raises nothing; a record built from a post with an author has
\* that author's name.
C8_DeletedAuthorPlaceholder ==
    \A k \in 1..Len(builds) :
        LET b == builds[k]
        IN  /\ ~b.built.raised
            /\ b.post.author = None => b.built.post_data.author = "[deleted]"
            /\ b.post.author # None =>
                  b.built.post_data.author = b.post.author.name

\* a post without author was built into a record that was collected
C8_Witness ==
    /\ \E k \in 1..Len(builds) : builds[k].post.author = None
    /\ \E r \in 1..Len(all_posts) : all_posts[r].author = "[deleted]"

\* C9 as claimed: the pauses fall between consecutive forums only, so a run
\* of scrape_multiple_subreddits over k forum names has paused k-1 times when
\* it returns.
C9_PausesOnlyBetweenForums ==
    ScrapeReturned => Len(sleeps) = Len(args.subreddits) - 1

\* C9: exactly one pause of 2 follows every fetch that returned, failed or
\* not, the last forum's included: a fetch starts only after every earlier
\* fetch has been followed by its pause, no pause is taken while a fetch runs,
\* and scrape_multiple_subreddits over k forum names returns after k pauses.
C9_PauseAfterEveryFetch ==
    /\ \A j \in 1..Len(sleeps) : sleeps[j] = 2
    /\ Len(sleeps) = idx - 1
    /\ Len(sleeps) = Len(Appended)
    /\ pc \in {"listing", "returned"} => Len(sleeps) = Len(fetch_log) - 1
    /\ (pc = "loop" \/ ScrapeReturned) => Len(sleeps) = Len(fetch_log)
    /\ ScrapeReturned => Len(sleeps) = Len(args.subreddits)

\* two forums were fetched, the first one failed, and two pauses were taken
C9_Witness ==
    /\ pc = "save"
    /\ Len(args.subreddits) = 2
    /\ fetch_log[1].raised = "top"
    /\ fetch_log[2].raised = "none"
    /\ sleeps = <<2, 2>>

\* the records of the fetches that raised nothing
RECURSIVE ConcatClean(_)
ConcatClean(log) ==
    IF log = <<>> THEN <<>>
    ELSE ConcatClean(SubSeq(log, 1, Len(log) - 1))
            \o (IF log[Len(log)].raised = "none"
                THEN log[Len(log)].result ELSE <<>>)

\* C10: a fetch that raised after building records returns the empty list,
\* so the aggregate holds the records of the error-free fetches only, all of
\* them and in order, and every record in it names a forum one of whose
\* fetches returned without error.
C10_FetchIsAllOrNothing ==
    /\ \A i \in 1..Len(fetch_log) :
          (fetch_log[i].raised # "none" /\ fetch_log[i].returned) =>
              fetch_log[i].result = <<>>
    /\ \A i \in 1..Len(fetch_log) :
          (fetch_log[i].raised = "none" /\ fetch_log[i].returned) =>
              Len(fetch_log[i].result) = fetch_log[i].built
    /\ all_posts = ConcatClean(Appended)
    /\ \A r \in 1..Len(all_posts) :
          \E i \in 1..Len(Appended) :
              /\ Appended[i].raised = "none"
              /\ Appended[i].name = all_posts[r].subreddit

\* a fetch failed after building a record, beside one that succeeded
C10_Witness ==
    /\ pc = "loop"
    /\ \E i \in 1..Len(fetch_log) :
          /\ fetch_log[i].raised = "top"
          /\ fetch_log[i].built >= 1
          /\ fetch_log[i].result = <<>>
    /\ \E i \in 1..Len(fetch_log) :
          fetch_log[i].raised = "none" /\ fetch_log[i].result # <<>>
    /\ all_posts # <<>>

====
